---- MODULE Spec2Model ----
(***************************************************************************)
(* Astroflora job dashboard (SimulationDashboard, 7.1): the job list, the  *)
(* selected job, the result set, the polling timer and the four network    *)
(* requests (job list, results, start-pipeline, cancel), as a state        *)
(* machine.  One action per event handler / completion handler; the React  *)
(* effects that run after a handler's render are part of the handler's     *)
(* action.                                                                 *)
(*                                                                         *)
(* Then the frame cursor shared by the trajectory viewer (MolstarPlayer)   *)
(* and the PCA plot, the viewer's playback, and the simulation dashboard   *)
(* (7.0) with its analysis sub-tasks and auto-refresh timer.               *)
(***************************************************************************)
EXTENDS Integers, Sequences, FiniteSets, TLC

\* ---------------------------------------------------------------- bounds
\* Jobs the backend ever holds (one exists at start, the rest are submitted).
MaxJobs == 2
\* Network requests in flight at once.
MaxNet == 2
\* Lifecycle transitions the backend makes on its own, over all jobs.
MaxSrvSteps == 2
\* PCA points of a result set (frames 0 .. MaxFrames - 1) and frames of its
\* trajectory.
MaxFrames == 3
\* goToFrame calls of the viewer in flight at once.
MaxCalls == 2
\* Sub-tasks a full analysis of the simulation is split into.
MaxTasks == 2

\* ------------------------------------------------------------ data model
ActiveStatuses == {"pending", "running"}

\* useState(null) for selectedJob: the null job has id 0.
NoJob == [id |-> 0, status |-> "none", progress |-> 0, results |-> FALSE]

\* useState(null) for results: the null result set is for job 0.
NoResults == [job |-> 0]

\* The initial / reset value of pipelineConfig, restricted to the two fields
\* the submit button reads (type and target_protein are edited and reset the
\* same way; parameters: {} is never written by any handler).
InitialConfig == [name |-> "", target_molecule |-> ""]

\* Values a text input of the form can hold.
FieldValues == {"", "x"}

\* The job a successful start-pipeline request creates on the backend.
NewJob(n) == [id |-> n, status |-> "pending", progress |-> 0, results |-> FALSE]

\* MolstarPlayer before it is mounted.  Once mounted (useState / useRef initial
\* values): frameInfo {current: 0, total: 0}, isPlaying false, no animation
\* frame and no timeout pending.
\*   total       : frameInfo.total / totalFrames (0: no structure loaded)
\*   current     : frameInfo.current / currentFrame of the player
\*   shown       : the frame the Mol* plugin displays
\*   raf         : animationRef holds a requestAnimationFrame that has not run
\*   timeout     : frameTimeoutRef holds a setTimeout that has not run
\*   playingSeen : the isPlaying the pending animate / timeout closure captured
NoViewer ==
  [mounted |-> FALSE, total |-> 0, current |-> 0, shown |-> 0,
   isPlaying |-> FALSE, raf |-> FALSE, timeout |-> FALSE,
   playingSeen |-> FALSE]

NewViewer == [NoViewer EXCEPT !.mounted = TRUE]

\* A goToFrame call past its guard, awaiting the plugin: the frame asked for,
\* whether playback (animate) made the call, and whether it is the call made
\* last (no call has been made since).
Call(n, pb) == [frame |-> n, playback |-> pb, latest |-> TRUE]

\* The calls in flight once another call is made.
Earlier(cs) == [i \in DOMAIN cs |-> [cs[i] EXCEPT !.latest = FALSE]]

\* The sub-task ids the backend hands out: one full analysis, one re-run.
TaskIds == 1..(MaxTasks + 1)

\* The simulation dashboard's useState initial values: analysisStatus 'idle',
\* jobIds [], currentJobs {} (no key: "none"), simulationResults null, error
\* null, autoRefresh true; timer: the setInterval(checkJobsStatus, 3000)
\* handle exists.
NewSim ==
  [analysisStatus |-> "idle", jobIds |-> {},
   currentJobs |-> [i \in TaskIds |-> "none"], simulationResults |-> FALSE,
   error |-> FALSE, autoRefresh |-> TRUE, timer |-> FALSE]

\* A request of the simulation dashboard as issued.  For a status poll: the
\* jobIds and currentJobs that the checkJobsStatus which issued it closed over.
SimReq(kind, ids, cj) == [kind |-> kind, ids |-> ids, jobs |-> cj]

VARIABLES
  srvJobs,         \* backend: its jobs, in creation order
  jobs,            \* useState([])       the in-memory job list
  selectedJob,     \* useState(null)     the selected job snapshot
  selIdx,          \* object identity: index i with selectedJob === jobs[i], else 0
  results,         \* useState(null)     the result set held
  isPolling,       \* useState(false)    the polling-requested flag
  showNewPipeline, \* useState(false)    the new-pipeline form is open
  pipelineConfig,  \* useState({...})    the form's values
  timerArmed,      \* the setInterval(loadJobs, 2000) handle exists
  net,             \* requests in flight, in issue order
  last,            \* the handler that ran last, and how its request ended
  resultsIssued,   \* history: results fetches issued by loadJobs, per job id
  view,            \* the view that is mounted: "jobs", "player", "sim", "none"
  currentFrame,    \* useState(0)       the dashboard's frame cursor
  viewer,          \* MolstarPlayer: its state, refs and pending timers
  calls,           \* goToFrame calls of the viewer in flight, in issue order
  sim,             \* the simulation dashboard's state and its interval
  simNet,          \* the simulation dashboard's requests in flight
  srvTasks         \* backend: the analysis sub-tasks' statuses, by job id

\* The frame cursor and the viewer.
frameVars == <<view, currentFrame, viewer, calls>>

\* The simulation dashboard (7.0).
simVars == <<sim, simNet, srvTasks>>

vars ==
  <<srvJobs, jobs, selectedJob, selIdx, results, isPolling, showNewPipeline,
    pipelineConfig, timerArmed, net, last, resultsIssued, frameVars, simVars>>

\* ------------------------------------------------------------- helpers
\* A request as issued: fetch(...) has been called, no response yet.
\*   sel  : the selectedJob id captured by the loadJobs closure that issues or
\*          will handle it (0 = null)
\*   arg  : the job id in the URL (results, cancel)
\*   cfg  : the request body (start-pipeline)
\*   st   : "sent", or "ok" once the backend has produced the job list
\*   data : the job list the backend answered with
\*   stale: a later-issued job-list request has already been applied
Req(kind, sel, arg, cfg) ==
  [kind |-> kind, sel |-> sel, arg |-> arg, cfg |-> cfg, st |-> "sent",
   data |-> <<>>, stale |-> FALSE]

\* last: the completion handler that ran last (op), whether its request
\* succeeded (outcome), and for an applied job-list response whether a
\* later-issued job-list request had been applied before it (superseded).
\* After a user event or a timer tick it holds UserEvent, after a step of the
\* backend it holds Backend.
UserEvent == [op |-> "event", outcome |-> "ok", superseded |-> FALSE]

Backend == [op |-> "backend", outcome |-> "ok", superseded |-> FALSE]

Done(op, outcome) == [op |-> op, outcome |-> outcome, superseded |-> FALSE]

RemoveAt(s, k) == [i \in 1..(Len(s) - 1) |-> IF i < k THEN s[i] ELSE s[i + 1]]

\* jobs.some(job => ['pending', 'running'].includes(job.status)) || isPolling
PollPredicate(p, js) ==
  p \/ \E i \in DOMAIN js : js[i].status \in ActiveStatuses

\* jobsData.find(j => j.id === id): index of the first match, 0 if none.
FindIdx(js, id) ==
  IF \E i \in DOMAIN js : js[i].id = id
    THEN CHOOSE i \in DOMAIN js :
           js[i].id = id /\ \A j \in DOMAIN js : js[j].id = id => i <= j
    ELSE 0

\* ------------------------------------------------------------- effects
\* useEffect(() => { if (isPolling || jobs.some(...)) interval =
\* setInterval(loadJobs, 2000); return () => clearInterval(interval) },
\* [isPolling, jobs, loadJobs]): after a render the interval exists exactly
\* when the condition held for the rendered isPolling and jobs.
PollingEffect(p, js) == PollPredicate(p, js)

\* useEffect(() => { loadJobs() }, [loadJobs]) with loadJobs =
\* useCallback(..., [selectedJob]): whenever a render sees another selectedJob
\* object, loadJobs is a new function and the effect issues a job-list fetch
\* whose closure holds that selectedJob.
LoadJobsEffect(n, changed, selId) ==
  IF changed THEN Append(n, Req("jobs", selId, 0, InitialConfig)) ELSE n

\* Variant of SubmitEnabled: the button checks the name only.
SubmitEnabledNameOnly(cfg) == cfg.name # ""

\* The button's disabled={!pipelineConfig.name || !pipelineConfig.target_molecule}
\* ('' is the only falsy string).
SubmitEnabled(cfg) == cfg.name # "" /\ cfg.target_molecule # ""

\* Variant of Prepend: the new job is put last.
PrependAtEnd(newJob, prev) == Append(prev, newJob)

\* setJobs(prev => [newJob, ...prev])
Prepend(newJob, prev) == <<newJob>> \o prev

\* A job-list response at position k is applied: every job-list request issued
\* before it and still in flight is from now on superseded.
Supersede(n, k) ==
  [i \in DOMAIN n |->
     IF i < k /\ n[i].kind = "jobs" THEN [n[i] EXCEPT !.stale = TRUE] ELSE n[i]]

Bump(f, id) == [f EXCEPT ![id] = IF @ < 2 THEN @ + 1 ELSE @]

\* The simulation dashboard is not part of the view.
NoSim ==
  /\ sim = NewSim
  /\ simNet = <<>>
  /\ srvTasks = <<>>

\* ---------------------------------------------------------------- Init
\* The state after the first render and its effects: nothing loaded, nothing
\* selected, the mount effect has issued the first job-list fetch, the polling
\* effect found no reason to arm the timer.  The backend holds n queued jobs.
Mounted(n) ==
  /\ srvJobs = [i \in 1..n |-> NewJob(i)]
  /\ jobs = <<>>
  /\ selectedJob = NoJob
  /\ selIdx = 0
  /\ results = NoResults
  /\ isPolling = FALSE
  /\ showNewPipeline = FALSE
  /\ pipelineConfig = InitialConfig
  /\ timerArmed = PollingEffect(FALSE, <<>>)
  /\ net = LoadJobsEffect(<<>>, TRUE, 0)
  /\ last = UserEvent
  /\ resultsIssued = [i \in 1..(MaxJobs + 1) |-> 0]
  /\ view = "jobs"
  /\ currentFrame = 0
  /\ viewer = NoViewer
  /\ calls = <<>>
  /\ NoSim

Init == Mounted(1)

InitTwo == Mounted(2)

\* ------------------------------------------------------------- backend
\* Lifecycle transitions a job has made: pending 0, running 1, terminal 2.
StepsOf(j) ==
  IF j.status = "pending" THEN 0 ELSE IF j.status = "running" THEN 1 ELSE 2

RECURSIVE SrvSteps(_)
SrvSteps(js) == IF js = <<>> THEN 0 ELSE StepsOf(Head(js)) + SrvSteps(Tail(js))

\* pending -> running -> {completed | failed}; progress is reported while
\* running; a completed job may or may not carry a results reference.
ServerStep(i) ==
  /\ i \in DOMAIN srvJobs
  /\ \/ /\ srvJobs[i].status = "pending"
        /\ SrvSteps(srvJobs) < MaxSrvSteps
        /\ srvJobs' = [srvJobs EXCEPT ![i].status = "running"]
     \/ /\ srvJobs[i].status = "running" /\ srvJobs[i].progress = 0
        /\ srvJobs' = [srvJobs EXCEPT ![i].progress = 50]
     \/ /\ srvJobs[i].status = "running"
        /\ SrvSteps(srvJobs) < MaxSrvSteps
        /\ \E r \in BOOLEAN :
             srvJobs' = [srvJobs EXCEPT ![i] =
               [id |-> @.id, status |-> "completed", progress |-> 100,
                results |-> r]]
     \/ /\ srvJobs[i].status = "running"
        /\ SrvSteps(srvJobs) < MaxSrvSteps
        /\ srvJobs' = [srvJobs EXCEPT ![i].status = "failed"]
  /\ last' = Backend
  /\ UNCHANGED <<jobs, selectedJob, selIdx, results, isPolling,
                 showNewPipeline, pipelineConfig, timerArmed, net,
                 resultsIssued>>
  /\ UNCHANGED <<frameVars, simVars>>

\* GET /api/v1/jobs is answered with the backend's jobs as they are now; the
\* response is then on its way to the client.
ServerAnswerJobs(k) ==
  /\ k \in DOMAIN net
  /\ net[k].kind = "jobs" /\ net[k].st = "sent"
  /\ net' = [net EXCEPT ![k].st = "ok", ![k].data = srvJobs]
  /\ last' = Backend
  /\ UNCHANGED <<srvJobs, jobs, selectedJob, selIdx, results, isPolling,
                 showNewPipeline, pipelineConfig, timerArmed, resultsIssued>>
  /\ UNCHANGED <<frameVars, simVars>>

\* ------------------------------------------------------- user and timer
\* An event that issues a request is taken only while fewer than MaxNet
\* requests are in flight; a completion handler only if the requests it issues
\* fit as well.
\* onClick={() => setSelectedJob(job)} on the i-th entry of the list.  A click
\* on the object that is already selected changes no state (no render).  Any
\* other click renders with a new selectedJob, so the loadJobs effect fetches.
SelectJob(i) ==
  /\ i \in DOMAIN jobs
  /\ selIdx # i
  /\ Len(net) < MaxNet
  /\ selectedJob' = jobs[i]
  /\ selIdx' = i
  /\ net' = LoadJobsEffect(net, TRUE, jobs[i].id)
  /\ timerArmed' = PollingEffect(isPolling, jobs)
  /\ last' = UserEvent
  /\ UNCHANGED <<srvJobs, jobs, results, isPolling, showNewPipeline,
                 pipelineConfig, resultsIssued>>
  /\ UNCHANGED <<frameVars, simVars>>

\* A tick of setInterval(loadJobs, 2000): the interval is re-created whenever
\* loadJobs changes, so the tick runs the current loadJobs.
Tick ==
  /\ timerArmed
  /\ Len(net) < MaxNet
  /\ net' = Append(net, Req("jobs", selectedJob.id, 0, InitialConfig))
  /\ last' = UserEvent
  /\ UNCHANGED <<srvJobs, jobs, selectedJob, selIdx, results, isPolling,
                 showNewPipeline, pipelineConfig, timerArmed, resultsIssued>>
  /\ UNCHANGED <<frameVars, simVars>>

\* onClick={() => setShowNewPipeline(true)} (header button and welcome pane).
OpenForm ==
  /\ ~showNewPipeline
  /\ showNewPipeline' = TRUE
  /\ last' = UserEvent
  /\ UNCHANGED <<srvJobs, jobs, selectedJob, selIdx, results, isPolling,
                 pipelineConfig, timerArmed, net, resultsIssued>>
  /\ UNCHANGED <<frameVars, simVars>>

\* The form's "Cancelar" button: onClick={() => setShowNewPipeline(false)}.
CloseForm ==
  /\ showNewPipeline
  /\ showNewPipeline' = FALSE
  /\ last' = UserEvent
  /\ UNCHANGED <<srvJobs, jobs, selectedJob, selIdx, results, isPolling,
                 pipelineConfig, timerArmed, net, resultsIssued>>
  /\ UNCHANGED <<frameVars, simVars>>

\* onChange of an input: setPipelineConfig(prev => ({...prev, [f]: value})).
EditConfig(f, v) ==
  /\ showNewPipeline
  /\ pipelineConfig[f] # v
  /\ pipelineConfig' = [pipelineConfig EXCEPT ![f] = v]
  /\ last' = UserEvent
  /\ UNCHANGED <<srvJobs, jobs, selectedJob, selIdx, results, isPolling,
                 showNewPipeline, timerArmed, net, resultsIssued>>
  /\ UNCHANGED <<frameVars, simVars>>

\* "Iniciar Pipeline" clicked: startPipeline runs up to its await, i.e. it
\* issues POST /api/v1/design/start-pipeline with the config as body.  A
\* disabled button delivers no click.
StartPipelineClick ==
  /\ showNewPipeline
  /\ SubmitEnabled(pipelineConfig)
  /\ Len(net) < MaxNet
  /\ net' = Append(net, Req("submit", 0, 0, pipelineConfig))
  /\ last' = UserEvent
  /\ UNCHANGED <<srvJobs, jobs, selectedJob, selIdx, results, isPolling,
                 showNewPipeline, pipelineConfig, timerArmed, resultsIssued>>
  /\ UNCHANGED <<frameVars, simVars>>

\* The header's "Cancelar" button, rendered when selectedJob.status ===
\* 'running': cancelJob(selectedJob.id) issues POST /api/v1/jobs/{id}/cancel.
\* cancelJob closes over the loadJobs of this render.
CancelClick ==
  /\ selectedJob.status = "running"
  /\ Len(net) < MaxNet
  /\ net' = Append(net, Req("cancel", selectedJob.id, selectedJob.id,
                            InitialConfig))
  /\ last' = UserEvent
  /\ UNCHANGED <<srvJobs, jobs, selectedJob, selIdx, results, isPolling,
                 showNewPipeline, pipelineConfig, timerArmed, resultsIssued>>
  /\ UNCHANGED <<frameVars, simVars>>

\* ------------------------------------------------- completion handlers
FailureKinds == {"http", "throw"}

\* A request can end without a usable response in two ways: the backend
\* answers with a non-success status ("http": response.ok is false), or fetch /
\* response.json() rejects ("throw").
CanFail(r, how) == how \in FailureKinds /\ (how = "http" => r.st = "sent")

\* loadJobs after its await, response.ok: setJobs(jobsData); if the closure's
\* selectedJob is non-null and jobsData holds its id: setSelectedJob(updated)
\* and, if updated is completed with results, loadResults(updated.id).  Then
\* the render's effects: the polling effect for the new jobs, the loadJobs
\* effect if selectedJob is a new object.
LoadJobsOk(k) ==
  /\ k \in DOMAIN net
  /\ net[k].kind = "jobs" /\ net[k].st = "ok"
  /\ LET r       == net[k]
         data    == r.data
         idx     == IF r.sel # 0 THEN FindIdx(data, r.sel) ELSE 0
         updated == IF idx # 0 THEN data[idx] ELSE NoJob
         load    == idx # 0 /\ updated.status = "completed" /\ updated.results
         n1      == RemoveAt(Supersede(net, k), k)
         n2      == IF load
                      THEN Append(n1, Req("results", 0, updated.id, InitialConfig))
                      ELSE n1
         n3      == LoadJobsEffect(n2, idx # 0, updated.id)
     IN  /\ Len(n3) <= MaxNet
         /\ jobs' = data
         /\ selectedJob' = IF idx # 0 THEN updated ELSE selectedJob
         /\ selIdx' = idx
         /\ net' = n3
         /\ timerArmed' = PollingEffect(isPolling, data)
         /\ resultsIssued' =
              IF load THEN Bump(resultsIssued, updated.id) ELSE resultsIssued
  /\ last' = [op |-> "loadJobs", outcome |-> "ok", superseded |-> net[k].stale]
  /\ UNCHANGED <<srvJobs, results, isPolling, showNewPipeline, pipelineConfig>>
  /\ UNCHANGED <<frameVars, simVars>>

\* Variant of LoadJobsFail: the failure empties the job list.
LoadJobsFailClears(k, how) ==
  /\ k \in DOMAIN net
  /\ net[k].kind = "jobs" /\ CanFail(net[k], how)
  /\ net' = RemoveAt(net, k)
  /\ jobs' = <<>>
  /\ selIdx' = 0
  /\ timerArmed' = PollingEffect(isPolling, <<>>)
  /\ last' = Done("loadJobs", "failed")
  /\ UNCHANGED <<srvJobs, selectedJob, results, isPolling, showNewPipeline,
                 pipelineConfig, resultsIssued>>
  /\ UNCHANGED <<frameVars, simVars>>

\* loadJobs when response.ok is false (nothing is done) or when the await
\* rejects (catch: console.error only).
LoadJobsFail(k, how) ==
  /\ k \in DOMAIN net
  /\ net[k].kind = "jobs" /\ CanFail(net[k], how)
  /\ net' = RemoveAt(net, k)
  /\ last' = Done("loadJobs", "failed")
  /\ UNCHANGED <<srvJobs, jobs, selectedJob, selIdx, results, isPolling,
                 showNewPipeline, pipelineConfig, timerArmed, resultsIssued>>
  /\ UNCHANGED <<frameVars, simVars>>

\* loadResults after its await, response.ok: setResults(resultsData).  The
\* backend answers with the result set of the job in the URL.
LoadResultsOk(k) ==
  /\ k \in DOMAIN net
  /\ net[k].kind = "results"
  /\ results' = [job |-> net[k].arg]
  /\ net' = RemoveAt(net, k)
  /\ last' = Done("loadResults", "ok")
  /\ UNCHANGED <<srvJobs, jobs, selectedJob, selIdx, isPolling,
                 showNewPipeline, pipelineConfig, timerArmed, resultsIssued>>
  /\ UNCHANGED <<frameVars, simVars>>

\* loadResults on a non-success response or a rejection.
LoadResultsFail(k, how) ==
  /\ k \in DOMAIN net
  /\ net[k].kind = "results" /\ CanFail(net[k], how)
  /\ net' = RemoveAt(net, k)
  /\ last' = Done("loadResults", "failed")
  /\ UNCHANGED <<srvJobs, jobs, selectedJob, selIdx, results, isPolling,
                 showNewPipeline, pipelineConfig, timerArmed, resultsIssued>>
  /\ UNCHANGED <<frameVars, simVars>>

\* startPipeline after its await, response.ok: the backend has created the
\* job; setJobs(prev => [newJob, ...prev]); setSelectedJob(newJob);
\* setShowNewPipeline(false); the form is reset; setIsPolling(true).  Effects:
\* the timer is armed, and the loadJobs effect fetches for the new selection.
StartPipelineOk(k) ==
  /\ k \in DOMAIN net
  /\ net[k].kind = "submit"
  /\ Len(srvJobs) < MaxJobs
  /\ LET newJob == NewJob(Len(srvJobs) + 1)
     IN  /\ srvJobs' = Append(srvJobs, newJob)
         /\ jobs' = Prepend(newJob, jobs)
         /\ selectedJob' = newJob
         /\ selIdx' = 1
         /\ showNewPipeline' = FALSE
         /\ pipelineConfig' = InitialConfig
         /\ isPolling' = TRUE
         /\ timerArmed' = PollingEffect(TRUE, Prepend(newJob, jobs))
         /\ net' = LoadJobsEffect(RemoveAt(net, k), TRUE, newJob.id)
  /\ last' = Done("startPipeline", "ok")
  /\ UNCHANGED <<results, resultsIssued>>
  /\ UNCHANGED <<frameVars, simVars>>

\* Variant of StartPipelineFail: the form is closed and reset on failure too.
StartPipelineFailResets(k, how) ==
  /\ k \in DOMAIN net
  /\ net[k].kind = "submit" /\ CanFail(net[k], how)
  /\ net' = RemoveAt(net, k)
  /\ showNewPipeline' = FALSE
  /\ pipelineConfig' = InitialConfig
  /\ last' = Done("startPipeline", "failed")
  /\ UNCHANGED <<srvJobs, jobs, selectedJob, selIdx, results, isPolling,
                 timerArmed, resultsIssued>>
  /\ UNCHANGED <<frameVars, simVars>>

\* startPipeline on a non-success response or a rejection: console.error only.
StartPipelineFail(k, how) ==
  /\ k \in DOMAIN net
  /\ net[k].kind = "submit" /\ CanFail(net[k], how)
  /\ net' = RemoveAt(net, k)
  /\ last' = Done("startPipeline", "failed")
  /\ UNCHANGED <<srvJobs, jobs, selectedJob, selIdx, results, isPolling,
                 showNewPipeline, pipelineConfig, timerArmed, resultsIssued>>
  /\ UNCHANGED <<frameVars, simVars>>

\* Variant of CancelOk: the handler leaves the refresh to the polling timer.
CancelOkNoRefresh(k) ==
  /\ k \in DOMAIN net
  /\ net[k].kind = "cancel"
  /\ LET i == FindIdx(srvJobs, net[k].arg)
     IN  srvJobs' = IF i # 0 /\ srvJobs[i].status \in ActiveStatuses
                      THEN [srvJobs EXCEPT ![i].status = "cancelled"]
                      ELSE srvJobs
  /\ net' = RemoveAt(net, k)
  /\ last' = Done("cancelJob", "ok")
  /\ UNCHANGED <<jobs, selectedJob, selIdx, results, isPolling,
                 showNewPipeline, pipelineConfig, timerArmed, resultsIssued>>
  /\ UNCHANGED <<frameVars, simVars>>

\* cancelJob after its await, response.ok: the backend has cancelled the job
\* if it was still pending or running; the handler calls loadJobs() (the one
\* cancelJob closed over), which issues a job-list fetch.
CancelOk(k) ==
  /\ k \in DOMAIN net
  /\ net[k].kind = "cancel"
  /\ LET i == FindIdx(srvJobs, net[k].arg)
     IN  srvJobs' = IF i # 0 /\ srvJobs[i].status \in ActiveStatuses
                      THEN [srvJobs EXCEPT ![i].status = "cancelled"]
                      ELSE srvJobs
  /\ net' = Append(RemoveAt(net, k), Req("jobs", net[k].sel, 0, InitialConfig))
  /\ last' = Done("cancelJob", "ok")
  /\ UNCHANGED <<jobs, selectedJob, selIdx, results, isPolling,
                 showNewPipeline, pipelineConfig, timerArmed, resultsIssued>>
  /\ UNCHANGED <<frameVars, simVars>>

\* Variant of CancelFail: the selected job is marked cancelled speculatively.
CancelFailMarksCancelled(k, how) ==
  /\ k \in DOMAIN net
  /\ net[k].kind = "cancel" /\ CanFail(net[k], how)
  /\ net' = RemoveAt(net, k)
  /\ selectedJob' = [selectedJob EXCEPT !.status = "cancelled"]
  /\ selIdx' = 0
  /\ last' = Done("cancelJob", "failed")
  /\ UNCHANGED <<srvJobs, jobs, results, isPolling, showNewPipeline,
                 pipelineConfig, timerArmed, resultsIssued>>
  /\ UNCHANGED <<frameVars, simVars>>

\* cancelJob on a non-success response or a rejection: console.error only.
CancelFail(k, how) ==
  /\ k \in DOMAIN net
  /\ net[k].kind = "cancel" /\ CanFail(net[k], how)
  /\ net' = RemoveAt(net, k)
  /\ last' = Done("cancelJob", "failed")
  /\ UNCHANGED <<srvJobs, jobs, selectedJob, selIdx, results, isPolling,
                 showNewPipeline, pipelineConfig, timerArmed, resultsIssued>>
  /\ UNCHANGED <<frameVars, simVars>>

\* ------------------------------------------- frame cursor and viewer
\* The job dashboard without a job list, for the views that are not the job
\* dashboard.
NoDashboard ==
  /\ srvJobs = <<>>
  /\ jobs = <<>>
  /\ selectedJob = NoJob
  /\ selIdx = 0
  /\ results = NoResults
  /\ isPolling = FALSE
  /\ showNewPipeline = FALSE
  /\ pipelineConfig = InitialConfig
  /\ timerArmed = FALSE
  /\ net = <<>>
  /\ last = UserEvent
  /\ resultsIssued = [i \in 1..(MaxJobs + 1) |-> 0]

jobVars ==
  <<srvJobs, jobs, selectedJob, selIdx, results, isPolling, showNewPipeline,
    pipelineConfig, timerArmed, net, resultsIssued>>

\* The frames of the PCA points of a result set: pcaData[i].frame.
PCAFrames == 0..(MaxFrames - 1)

\* PCAPlot: the points drawn highlighted for a cursor value (size 12, white
\* outline): p.frame === currentFrame.
Highlighted(cf) == {f \in PCAFrames : f = cf}

\* The props the job dashboard renders the player with: structureUrl,
\* currentFrame, onFrameChange (= setCurrentFrame), height.
DashboardPlayerProps(res, cf) == [structureUrl |-> res.job, currentFrame |-> cf]

\* The same element with the URL passed under the name the player reads.
WiredPlayerProps(cf) == [topologyUrl |-> 1, currentFrame |-> cf]

\* The player's parameter destructuring: a prop that is not passed is
\* undefined (0).
Prop(props, name) == IF name \in DOMAIN props THEN props[name] ELSE 0

\* Variant of GoToFrame71: the frame number is not checked against the range.
GoToFrame71Unchecked(v, n, cs, pb) ==
  IF v.mounted THEN Append(Earlier(cs), Call(n, pb)) ELSE cs

\* MolstarPlayer (7.1) goToFrame up to its await: nothing without a plugin or
\* for a frame outside [0, frameInfo.total); else the plugin is asked for the
\* frame.  Returns the calls in flight.
GoToFrame71(v, n, cs, pb) ==
  IF v.mounted /\ n >= 0 /\ n < v.total THEN Append(Earlier(cs), Call(n, pb)) ELSE cs

\* MolstarPlayer (7.0) goToFrame up to its await: nothing without a plugin or
\* with totalFrames <= 1, nothing for a frame outside [0, totalFrames).
GoToFrame70(v, n, cs, pb) ==
  IF v.mounted /\ v.total > 1 /\ n >= 0 /\ n < v.total
    THEN Append(Earlier(cs), Call(n, pb))
    ELSE cs

\* Variant of ExternalFrameEffect71: the effect does not look at isPlaying.
ExternalFrameEffect71Always(v0, cf0, v1, cf1, cs) ==
  IF /\ v1.mounted
     /\ \/ cf1 # cf0
        \/ v1.current # v0.current
        \/ v1.isPlaying # v0.isPlaying
        \/ v1.total # v0.total
     /\ cf1 # v1.current
    THEN GoToFrame71(v1, cf1, cs, FALSE)
    ELSE cs

\* MolstarPlayer (7.1): useEffect(() => { if (currentFrame !==
\* frameInfo.current && !isPlaying) goToFrame(currentFrame) }, [currentFrame,
\* frameInfo.current, isPlaying, goToFrame]), run after a render from player
\* state v0 and prop cf0 to v1 and cf1; goToFrame changes with frameInfo.total.
ExternalFrameEffect71(v0, cf0, v1, cf1, cs) ==
  IF /\ v1.mounted
     /\ \/ cf1 # cf0
        \/ v1.current # v0.current
        \/ v1.isPlaying # v0.isPlaying
        \/ v1.total # v0.total
     /\ cf1 # v1.current
     /\ ~v1.isPlaying
    THEN GoToFrame71(v1, cf1, cs, FALSE)
    ELSE cs

\* MolstarPlayer (7.0): useEffect(() => { if (frameToShow !== currentFrame)
\* goToFrame(frameToShow) }, [frameToShow, currentFrame, goToFrame]); goToFrame
\* changes with totalFrames.
ExternalFrameEffect70(v0, cf0, v1, cf1, cs) ==
  IF /\ v1.mounted
     /\ \/ cf1 # cf0
        \/ v1.current # v0.current
        \/ v1.total # v0.total
     /\ cf1 # v1.current
    THEN GoToFrame70(v1, cf1, cs, FALSE)
    ELSE cs

\* The simulation dashboard (7.0) renders the 7.0 player, the other views the
\* 7.1 player.
GoToFrame(v, n, cs, pb) ==
  IF view = "sim" THEN GoToFrame70(v, n, cs, pb) ELSE GoToFrame71(v, n, cs, pb)

ExternalFrameEffect(v0, cf0, v1, cf1, cs) ==
  IF view = "sim"
    THEN ExternalFrameEffect70(v0, cf0, v1, cf1, cs)
    ELSE ExternalFrameEffect71(v0, cf0, v1, cf1, cs)

\* The player as mounted under a parent that holds the cursor, renders the
\* PCA plot next to it and passes topologyUrl: nothing loaded yet.
InitPlayer ==
  /\ NoDashboard
  /\ NoSim
  /\ view = "player"
  /\ currentFrame = 0
  /\ viewer = NewViewer
  /\ calls = <<>>

\* loadStructure to its end: the topology is loaded, and the trajectory with
\* it (total = its frame count) or not (no trajectoryUrl, or its download
\* fails: total = 1); setFrameInfo({current: 0, total, time_ns: 0}).  It runs
\* only for a player that is passed topologyUrl.
LoadStructure(t) ==
  /\ viewer.mounted /\ viewer.total = 0
  /\ Prop(IF view = "jobs" THEN DashboardPlayerProps(results, currentFrame)
                          ELSE WiredPlayerProps(currentFrame),
          "topologyUrl") # 0
  /\ t \in {1, MaxFrames}
  /\ LET v1 == [viewer EXCEPT !.total = t, !.current = 0, !.shown = 0]
     IN  /\ viewer' = v1
         /\ calls' = ExternalFrameEffect(viewer, currentFrame, v1,
                                         currentFrame, calls)
  /\ last' = UserEvent
  /\ UNCHANGED <<jobVars, simVars, view, currentFrame>>

\* A click on the PCA point with frame f: PCAPlot's handlePointClick calls
\* onPointClick(frame), the dashboard's handlePCAPointClick does
\* setCurrentFrame(frame); the player's effect then sees the new prop.  The
\* plot has points once a result set is held.  (In the job dashboard no
\* structure is loaded, so goToFrame returns at its guard.)
PCAPointClick(f) ==
  /\ f \in PCAFrames
  /\ f # currentFrame
  /\ view = "jobs" => (selectedJob # NoJob /\ results # NoResults)
  /\ currentFrame' = f
  /\ calls' = ExternalFrameEffect(viewer, currentFrame, viewer, f, calls)
  /\ Len(calls') <= MaxCalls
  /\ last' = Done("plotClick", "ok")
  /\ UNCHANGED <<jobVars, simVars, view, viewer>>

\* A viewer control calls goToFrame(n): the slider's onChange (any frame of
\* its range min..max), previousFrame (Math.max(0, current - 1), disabled at
\* frame 0), nextFrame (Math.min(total - 1, current + 1), disabled at the
\* last frame).  The controls are rendered when frameInfo.total > 1.
SliderChange(n) ==
  /\ viewer.mounted /\ viewer.total > 1
  /\ n \in 0..(viewer.total - 1) /\ n # viewer.current
  /\ calls' = GoToFrame(viewer, n, calls, FALSE)
  /\ Len(calls') <= MaxCalls
  /\ last' = UserEvent
  /\ UNCHANGED <<jobVars, simVars, view, currentFrame, viewer>>

PreviousFrame ==
  /\ viewer.mounted /\ viewer.total > 1
  /\ viewer.current # 0
  /\ calls' = GoToFrame71(viewer,
                IF viewer.current - 1 > 0 THEN viewer.current - 1 ELSE 0,
                calls, FALSE)
  /\ Len(calls') <= MaxCalls
  /\ last' = UserEvent
  /\ UNCHANGED <<jobVars, simVars, view, currentFrame, viewer>>

NextFrame ==
  /\ viewer.mounted /\ viewer.total > 1
  /\ viewer.current # viewer.total - 1
  /\ calls' = GoToFrame71(viewer,
                IF viewer.current + 1 < viewer.total - 1
                  THEN viewer.current + 1 ELSE viewer.total - 1,
                calls, FALSE)
  /\ Len(calls') <= MaxCalls
  /\ last' = UserEvent
  /\ UNCHANGED <<jobVars, simVars, view, currentFrame, viewer>>

\* goToFrame after its await: the plugin shows the frame; setFrameInfo(prev =>
\* ({...prev, current: frameNumber})) / setCurrentFrame(frameNumber);
\* onFrameChange(frameNumber), which is the parent's setCurrentFrame.  Calls
\* complete in any order.
GoToFrameOk(k) ==
  /\ k \in DOMAIN calls
  /\ LET n  == calls[k].frame
         v1 == [viewer EXCEPT !.current = n, !.shown = n]
     IN  /\ viewer' = v1
         /\ currentFrame' = n
         /\ calls' = ExternalFrameEffect(viewer, currentFrame, v1, n,
                                         RemoveAt(calls, k))
  /\ last' = [op |-> IF calls[k].playback THEN "advance" ELSE "goToFrame",
              outcome |-> "ok", superseded |-> ~calls[k].latest]
  /\ UNCHANGED <<jobVars, simVars, view>>

\* goToFrame when the plugin has no trajectory after all, or its setFrame
\* rejects (catch: console.error): no state is written.
GoToFrameFail(k) ==
  /\ k \in DOMAIN calls
  /\ calls' = RemoveAt(calls, k)
  /\ last' = Done("goToFrame", "failed")
  /\ UNCHANGED <<jobVars, simVars, view, currentFrame, viewer>>

\* playAnimation (7.1), the play button while not playing: setIsPlaying(true)
\* and requestAnimationFrame(animate).  animate and the timeout callback it
\* creates close over the isPlaying of the render playAnimation is from.
PlayAnimation ==
  /\ viewer.mounted /\ viewer.total > 1
  /\ ~viewer.isPlaying
  /\ viewer' = [viewer EXCEPT !.isPlaying = TRUE, !.raf = TRUE,
                              !.playingSeen = viewer.isPlaying]
  /\ last' = UserEvent
  /\ UNCHANGED <<jobVars, simVars, view, currentFrame, calls>>

\* animate, the animation-frame callback: goToFrame((prev.current + 1) %
\* prev.total) from inside the setFrameInfo updater, which returns prev; then
\* setTimeout(..., 100).
Animate ==
  /\ viewer.raf
  /\ calls' = GoToFrame71(viewer, (viewer.current + 1) % viewer.total, calls,
                          TRUE)
  /\ Len(calls') <= MaxCalls
  /\ viewer' = [viewer EXCEPT !.raf = FALSE, !.timeout = TRUE]
  /\ last' = UserEvent
  /\ UNCHANGED <<jobVars, simVars, view, currentFrame>>

\* The timeout callback: if (isPlaying) animationRef.current =
\* requestAnimationFrame(animate), with the isPlaying its closure captured.
FrameTimeout ==
  /\ viewer.timeout
  /\ viewer' = [viewer EXCEPT !.timeout = FALSE, !.raf = viewer.playingSeen]
  /\ last' = UserEvent
  /\ UNCHANGED <<jobVars, simVars, view, currentFrame, calls>>

\* pauseAnimation (7.1), the play button while playing: setIsPlaying(false),
\* cancelAnimationFrame, clearTimeout.  The render's effect then sees
\* isPlaying false.
PauseAnimation ==
  /\ viewer.mounted /\ viewer.total > 1
  /\ viewer.isPlaying
  /\ LET v1 == [viewer EXCEPT !.isPlaying = FALSE, !.raf = FALSE,
                              !.timeout = FALSE]
     IN  /\ viewer' = v1
         /\ calls' = ExternalFrameEffect71(viewer, currentFrame, v1,
                                           currentFrame, calls)
  /\ Len(calls') <= MaxCalls
  /\ last' = UserEvent
  /\ UNCHANGED <<jobVars, simVars, view, currentFrame>>

\* stopAnimation (7.1): pauseAnimation(), then goToFrame(0).
StopAnimation ==
  /\ viewer.mounted /\ viewer.total > 1
  /\ LET v1 == [viewer EXCEPT !.isPlaying = FALSE, !.raf = FALSE,
                              !.timeout = FALSE]
     IN  /\ viewer' = v1
         /\ calls' = ExternalFrameEffect71(viewer, currentFrame, v1,
                       currentFrame, GoToFrame71(viewer, 0, calls, FALSE))
  /\ Len(calls') <= MaxCalls
  /\ last' = UserEvent
  /\ UNCHANGED <<jobVars, simVars, view, currentFrame>>

\* The player is unmounted with its parent; the cleanup of its first effect:
\* cancelAnimationFrame, clearTimeout, plugin.dispose().
UnmountPlayer ==
  /\ view = "player" /\ viewer.mounted
  /\ view' = "none"
  /\ viewer' = [viewer EXCEPT !.mounted = FALSE, !.raf = FALSE,
                              !.timeout = FALSE]
  /\ last' = UserEvent
  /\ UNCHANGED <<jobVars, simVars, currentFrame, calls>>

\* ------------------------------------------ simulation dashboard (7.0)
\* useEffect(() => { if (autoRefresh && analysisStatus === 'running') {
\* interval = setInterval(checkJobsStatus, 3000); return () =>
\* clearInterval(interval) } }, [autoRefresh, analysisStatus, checkJobsStatus]):
\* after a render the interval exists exactly when the condition held.
AutoRefreshEffect(sm) == sm.autoRefresh /\ sm.analysisStatus = "running"

\* The visualization panel (player and plot) is rendered when analysisStatus
\* === 'completed' && simulationResults.
PanelShown(sm) == sm.analysisStatus = "completed" /\ sm.simulationResults

\* The player after a render from dashboard state sm0 to sm1: mounted anew
\* when the panel appears, unmounted (plugin disposed) when it goes.
PanelPlayer(sm0, sm1, v) ==
  IF PanelShown(sm1)
    THEN IF PanelShown(sm0) THEN v ELSE NewViewer
    ELSE NoViewer

\* The simulation dashboard as mounted with a simId: the mount effect has
\* called loadSimulationResults(); no analysis has been started.
InitSim ==
  /\ NoDashboard
  /\ view = "sim"
  /\ currentFrame = 0
  /\ viewer = NoViewer
  /\ calls = <<>>
  /\ sim = NewSim
  /\ simNet = <<SimReq("results", {}, NewSim.currentJobs)>>
  /\ srvTasks = <<>>

\* The backend works on a sub-task: enqueued -> running -> {completed | error}.
SrvTaskStep(i) ==
  /\ i \in DOMAIN srvTasks
  /\ \/ /\ srvTasks[i] = "enqueued"
        /\ srvTasks' = [srvTasks EXCEPT ![i] = "running"]
     \/ /\ srvTasks[i] = "running"
        /\ srvTasks' = [srvTasks EXCEPT ![i] = "completed"]
     \/ /\ srvTasks[i] = "running"
        /\ srvTasks' = [srvTasks EXCEPT ![i] = "error"]
  /\ last' = Backend
  /\ UNCHANGED <<jobVars, frameVars, sim, simNet>>

\* startAnalysis up to its await: setAnalysisStatus('running'), setError(null),
\* POST .../analyze.  'full' is behind the two start buttons (analysisStatus
\* === 'idle'), 'pca' behind "Re-ejecutar PCA" in the completed panel.
StartAnalysis(type) ==
  /\ view = "sim"
  /\ \/ type = "full" /\ sim.analysisStatus = "idle"
     \/ type = "pca" /\ PanelShown(sim)
  /\ Len(simNet) < MaxNet
  /\ Len(srvTasks) + (IF type = "full" THEN MaxTasks ELSE 1) <= MaxTasks + 1
  /\ LET s1 == [sim EXCEPT !.analysisStatus = "running", !.error = FALSE]
         s2 == [s1 EXCEPT !.timer = AutoRefreshEffect(s1)]
     IN  /\ sim' = s2
         /\ viewer' = PanelPlayer(sim, s2, viewer)
  /\ simNet' = Append(simNet, SimReq(type, {}, NewSim.currentJobs))
  /\ last' = UserEvent
  /\ UNCHANGED <<jobVars, view, currentFrame, calls, srvTasks>>

\* startAnalysis after its await: the backend has created the sub-tasks (all
\* of them for 'full', one for 'pca'); setJobIds(jobs.map(job => job.job_id));
\* setCurrentJobs of a fresh object with every sub-task 'enqueued'.
StartAnalysisOk(k) ==
  /\ k \in DOMAIN simNet
  /\ simNet[k].kind \in {"full", "pca"}
  /\ LET n   == IF simNet[k].kind = "full" THEN MaxTasks ELSE 1
         ids == (Len(srvTasks) + 1)..(Len(srvTasks) + n)
         s1  == [sim EXCEPT !.jobIds = ids,
                   !.currentJobs = [i \in TaskIds |->
                      IF i \in ids THEN "enqueued" ELSE "none"]]
     IN  /\ srvTasks' = srvTasks \o [i \in 1..n |-> "enqueued"]
         /\ sim' = [s1 EXCEPT !.timer = AutoRefreshEffect(s1)]
  /\ simNet' = RemoveAt(simNet, k)
  /\ last' = Done("startAnalysis", "ok")
  /\ UNCHANGED <<jobVars, frameVars>>

\* startAnalysis, catch: setError(...), setAnalysisStatus('error').
StartAnalysisFail(k) ==
  /\ k \in DOMAIN simNet
  /\ simNet[k].kind \in {"full", "pca"}
  /\ LET s1 == [sim EXCEPT !.error = TRUE, !.analysisStatus = "error"]
         s2 == [s1 EXCEPT !.timer = AutoRefreshEffect(s1)]
     IN  /\ sim' = s2
         /\ viewer' = PanelPlayer(sim, s2, viewer)
  /\ simNet' = RemoveAt(simNet, k)
  /\ last' = Done("startAnalysis", "failed")
  /\ UNCHANGED <<jobVars, view, currentFrame, calls, srvTasks>>

\* A tick of setInterval(checkJobsStatus, 3000): checkJobsStatus returns if
\* jobIds is empty, else it issues one GET .../jobs/{id}/status per job id.
AutoRefreshTick ==
  /\ sim.timer
  /\ sim.jobIds # {}
  /\ Len(simNet) < MaxNet
  /\ simNet' = Append(simNet, SimReq("status", sim.jobIds, sim.currentJobs))
  /\ last' = UserEvent
  /\ UNCHANGED <<jobVars, frameVars, sim, srvTasks>>

\* The status a sub-task's GET ends with: what the backend reports, or
\* 'error' from the request's own .catch when the GET failed.
PolledStatus(id, failed) == IF id \in failed THEN "error" ELSE srvTasks[id]

\* checkJobsStatus after Promise.all: the GETs of the job ids in failed were
\* rejected.  updatedJobs = {...currentJobs} with every polled status;
\* setCurrentJobs(updatedJobs); hasError: setAnalysisStatus('error'),
\* setAutoRefresh(false); else allCompleted: setAnalysisStatus('completed'),
\* setAutoRefresh(false), loadSimulationResults().
CheckJobsStatusDone(k, failed) ==
  /\ k \in DOMAIN simNet
  /\ simNet[k].kind = "status"
  /\ failed \subseteq simNet[k].ids
  /\ LET ids          == simNet[k].ids
         updatedJobs  == [i \in TaskIds |->
                            IF i \in ids THEN PolledStatus(i, failed)
                                         ELSE simNet[k].jobs[i]]
         hasError     == \E i \in ids : PolledStatus(i, failed) = "error"
         allCompleted == \A i \in ids : PolledStatus(i, failed) = "completed"
         s1 == [sim EXCEPT !.currentJobs = updatedJobs]
         s2 == IF hasError
                 THEN [s1 EXCEPT !.analysisStatus = "error",
                                 !.autoRefresh = FALSE]
                 ELSE IF allCompleted
                   THEN [s1 EXCEPT !.analysisStatus = "completed",
                                   !.autoRefresh = FALSE]
                   ELSE s1
         s3 == [s2 EXCEPT !.timer = AutoRefreshEffect(s2)]
         n1 == RemoveAt(simNet, k)
     IN  /\ sim' = s3
         /\ viewer' = PanelPlayer(sim, s3, viewer)
         /\ simNet' = IF ~hasError /\ allCompleted
                        THEN Append(n1, SimReq("results", {}, NewSim.currentJobs))
                        ELSE n1
  /\ last' = Done("checkJobsStatus", IF failed # {} THEN "failed" ELSE "ok")
  /\ UNCHANGED <<jobVars, view, currentFrame, calls, srvTasks>>

\* "Recargar Datos" in the completed panel: loadSimulationResults().
ReloadData ==
  /\ view = "sim"
  /\ PanelShown(sim)
  /\ Len(simNet) < MaxNet
  /\ simNet' = Append(simNet, SimReq("results", {}, NewSim.currentJobs))
  /\ last' = UserEvent
  /\ UNCHANGED <<jobVars, frameVars, sim, srvTasks>>

\* loadSimulationResults after its await: setSimulationResults(results) (and
\* setPcaData).
LoadSimulationResultsOk(k) ==
  /\ k \in DOMAIN simNet
  /\ simNet[k].kind = "results"
  /\ LET s1 == [sim EXCEPT !.simulationResults = TRUE]
     IN  /\ sim' = s1
         /\ viewer' = PanelPlayer(sim, s1, viewer)
  /\ simNet' = RemoveAt(simNet, k)
  /\ last' = Done("loadSimulationResults", "ok")
  /\ UNCHANGED <<jobVars, view, currentFrame, calls, srvTasks>>

\* loadSimulationResults, catch: setError(...).
LoadSimulationResultsFail(k) ==
  /\ k \in DOMAIN simNet
  /\ simNet[k].kind = "results"
  /\ sim' = [sim EXCEPT !.error = TRUE]
  /\ simNet' = RemoveAt(simNet, k)
  /\ last' = Done("loadSimulationResults", "failed")
  /\ UNCHANGED <<jobVars, frameVars, srvTasks>>

\* The visualization panel of the simulation dashboard as it first appears:
\* a full analysis has completed, its results are loaded, the player is mounted
\* and has not loaded its data yet.
InitSimPanel ==
  /\ NoDashboard
  /\ view = "sim"
  /\ currentFrame = 0
  /\ viewer = NewViewer
  /\ calls = <<>>
  /\ sim = [analysisStatus |-> "completed", jobIds |-> 1..MaxTasks,
            currentJobs |-> [i \in TaskIds |->
               IF i <= MaxTasks THEN "completed" ELSE "none"],
            simulationResults |-> TRUE, error |-> FALSE,
            autoRefresh |-> FALSE, timer |-> FALSE]
  /\ simNet = <<>>
  /\ srvTasks = [i \in 1..MaxTasks |-> "completed"]

\* MolstarPlayer (7.0) initializeMolstar -> loadMolecularData to its end:
\* setTotalFrames(frameInfo.frameCount || 1) with a trajectory, setTotalFrames(1)
\* without.
LoadMolecularData(t) ==
  /\ view = "sim"
  /\ viewer.mounted /\ viewer.total = 0
  /\ t \in {1, MaxFrames}
  /\ LET v1 == [viewer EXCEPT !.total = t]
     IN  /\ viewer' = v1
         /\ calls' = ExternalFrameEffect70(viewer, currentFrame, v1,
                                           currentFrame, calls)
  /\ last' = UserEvent
  /\ UNCHANGED <<jobVars, simVars, view, currentFrame>>

\* MolstarPlayer (7.0) togglePlayback: the plugin's trajectory animator is
\* told to play / pause, and setIsPlaying follows.
TogglePlayback ==
  /\ view = "sim"
  /\ viewer.mounted /\ viewer.total > 1
  /\ viewer' = [viewer EXCEPT !.isPlaying = ~viewer.isPlaying]
  /\ last' = UserEvent
  /\ UNCHANGED <<jobVars, simVars, view, currentFrame, calls>>

\* The plugin's animator, while playing, moves the plugin to the next frame on
\* its own; the player subscribes to nothing of it.
PluginAdvance ==
  /\ view = "sim"
  /\ viewer.mounted /\ viewer.isPlaying
  /\ viewer' = [viewer EXCEPT !.shown = (viewer.shown + 1) % viewer.total]
  /\ last' = Done("advance", "ok")
  /\ UNCHANGED <<jobVars, simVars, view, currentFrame, calls>>

\* The simulation dashboard is unmounted: the auto-refresh effect's cleanup
\* clears the interval, the player goes with the page.
UnmountSim ==
  /\ view = "sim"
  /\ view' = "none"
  /\ sim' = [sim EXCEPT !.timer = FALSE]
  /\ viewer' = NoViewer
  /\ last' = UserEvent
  /\ UNCHANGED <<jobVars, currentFrame, calls, simNet, srvTasks>>

\* Variant of UnmountDashboard: the interval is left running.
UnmountDashboardKeepsInterval ==
  /\ view = "jobs"
  /\ view' = "none"
  /\ last' = UserEvent
  /\ UNCHANGED <<jobVars, simVars, currentFrame, viewer, calls>>

\* The job dashboard is unmounted: the polling effect's cleanup clears the
\* interval.
UnmountDashboard ==
  /\ view = "jobs"
  /\ view' = "none"
  /\ timerArmed' = FALSE
  /\ last' = UserEvent
  /\ UNCHANGED <<srvJobs, jobs, selectedJob, selIdx, results, isPolling,
                 showNewPipeline, pipelineConfig, net, resultsIssued>>
  /\ UNCHANGED <<simVars, currentFrame, viewer, calls>>

\* ---------------------------------------------------------------- Next
Positions == 1..(MaxNet + 1)

\* Selection, the timer, cancellation, the backend's progress and the
\* completion handlers of the job-list, results and cancel requests.
NextPoll ==
  \/ \E i \in 1..(MaxJobs + 1) : ServerStep(i)
  \/ \E k \in Positions : ServerAnswerJobs(k)
  \/ \E i \in 1..(MaxJobs + 1) : SelectJob(i)
  \/ Tick
  \/ CancelClick
  \/ \E k \in Positions : LoadJobsOk(k)
  \/ \E k \in Positions : \E how \in FailureKinds : LoadJobsFail(k, how)
  \/ \E k \in Positions : LoadResultsOk(k)
  \/ \E k \in Positions : \E how \in FailureKinds : LoadResultsFail(k, how)
  \/ \E k \in Positions : CancelOk(k)
  \/ \E k \in Positions : \E how \in FailureKinds : CancelFail(k, how)

\* The new-pipeline form and the start-pipeline request.
NextForm ==
  \/ OpenForm
  \/ CloseForm
  \/ \E f \in {"name", "target_molecule"} :
       \E v \in FieldValues : EditConfig(f, v)
  \/ StartPipelineClick
  \/ \E k \in Positions : StartPipelineOk(k)
  \/ \E k \in Positions : \E how \in FailureKinds : StartPipelineFail(k, how)

\* The dashboard while the user leaves the new-pipeline form alone; the
\* backend holds one job, which runs through its lifecycle.
Spec == Init /\ [][NextPoll]_vars

\* The same with two jobs on the backend.
SpecTwo == InitTwo /\ [][NextPoll]_vars

\* The dashboard while the backend leaves its jobs queued (pending): the form,
\* submission, selection, the timer and the job-list fetches.
NextSubmit ==
  \/ NextForm
  \/ \E k \in Positions : ServerAnswerJobs(k)
  \/ \E i \in 1..(MaxJobs + 1) : SelectJob(i)
  \/ Tick
  \/ \E k \in Positions : LoadJobsOk(k)
  \/ \E k \in Positions : \E how \in FailureKinds : LoadJobsFail(k, how)

SpecSubmit == Init /\ [][NextSubmit]_vars

\* Everything at once.
NextFull == NextPoll \/ NextForm

SpecFull == Init /\ [][NextFull]_vars

\* The job dashboard with two jobs on the backend and the PCA plot of the
\* visualization tab.  The player next to the plot is passed structureUrl and
\* reads topologyUrl, so it loads no structure, its goToFrame returns at the
\* guard for every frame and its controls are not rendered.
NextCursor ==
  \/ NextPoll
  \/ \E f \in PCAFrames : PCAPointClick(f)

SpecCursor == InitTwo /\ [][NextCursor]_vars

\* The 7.1 player with its structure loaded, the plot and the cursor.
NextPlayer ==
  \/ \E t \in {1, MaxFrames} : LoadStructure(t)
  \/ \E f \in PCAFrames : PCAPointClick(f)
  \/ \E n \in PCAFrames : SliderChange(n)
  \/ PreviousFrame
  \/ NextFrame
  \/ \E k \in 1..MaxCalls : GoToFrameOk(k)
  \/ \E k \in 1..MaxCalls : GoToFrameFail(k)
  \/ PlayAnimation
  \/ Animate
  \/ FrameTimeout
  \/ PauseAnimation
  \/ StopAnimation

SpecPlayer == InitPlayer /\ [][NextPlayer]_vars

\* The simulation dashboard: analyses, their sub-tasks, the auto-refresh
\* interval and the results.
NextSim ==
  \/ \E i \in TaskIds : SrvTaskStep(i)
  \/ \E type \in {"full", "pca"} : StartAnalysis(type)
  \/ \E k \in Positions : StartAnalysisOk(k)
  \/ \E k \in Positions : StartAnalysisFail(k)
  \/ AutoRefreshTick
  \/ \E k \in Positions : \E failed \in SUBSET TaskIds :
       CheckJobsStatusDone(k, failed)
  \/ ReloadData
  \/ \E k \in Positions : LoadSimulationResultsOk(k)
  \/ \E k \in Positions : LoadSimulationResultsFail(k)

SpecSim == InitSim /\ [][NextSim]_vars

\* The visualization panel of the simulation dashboard: the 7.0 player, the
\* plot and the cursor.
NextSimPanel ==
  \/ \E t \in {1, MaxFrames} : LoadMolecularData(t)
  \/ \E f \in PCAFrames : PCAPointClick(f)
  \/ \E n \in PCAFrames : SliderChange(n)
  \/ \E k \in 1..MaxCalls : GoToFrameOk(k)
  \/ \E k \in 1..MaxCalls : GoToFrameFail(k)
  \/ TogglePlayback
  \/ PluginAdvance

SpecSimPanel == InitSimPanel /\ [][NextSimPanel]_vars

\* The three views with their timers, each from its mount to its unmount:
\* the job dashboard (poll interval), the 7.1 player (animation frame and
\* timeout) and the simulation dashboard (auto-refresh interval).  Nothing of
\* a view runs once it is unmounted.
InitTimers == Init \/ InitPlayer \/ InitSim

NextTimers ==
  \/ view = "jobs" /\ NextPoll
  \/ view = "player" /\ NextPlayer
  \/ view = "sim" /\ NextSim
  \/ UnmountDashboard
  \/ UnmountPlayer
  \/ UnmountSim

SpecTimers == InitTimers /\ [][NextTimers]_vars

\* The job dashboard with the browser firing every due interval tick, the
\* backend answering every request and every response being handled.  Strong
\* fairness on the tick: the interval does not wait for room among the
\* requests in flight.  The user's clicks and the backend's work on the jobs
\* are under no obligation.
SpecPollFair ==
  /\ Spec
  /\ SF_vars(Tick)
  /\ WF_vars(\E k \in Positions : ServerAnswerJobs(k))
  /\ WF_vars(\E k \in Positions : \E how \in FailureKinds :
               LoadJobsOk(k) \/ LoadJobsFail(k, how))
  /\ WF_vars(\E k \in Positions : \E how \in FailureKinds :
               LoadResultsOk(k) \/ LoadResultsFail(k, how))
  /\ WF_vars(\E k \in Positions : \E how \in FailureKinds :
               CancelOk(k) \/ CancelFail(k, how))

\* The simulation dashboard with the browser firing every due interval tick,
\* every request ending (well or badly) and the backend working on every
\* sub-task it has.  Strong fairness on the tick: the interval does not wait
\* for room among the requests in flight.  The user's clicks are under no
\* obligation.
SpecSimFair ==
  /\ SpecSim
  /\ SF_vars(AutoRefreshTick)
  /\ WF_vars(\E i \in TaskIds : SrvTaskStep(i))
  /\ WF_vars(\E k \in Positions : StartAnalysisOk(k) \/ StartAnalysisFail(k))
  /\ WF_vars(\E k \in Positions : \E failed \in SUBSET TaskIds :
               CheckJobsStatusDone(k, failed))
  /\ WF_vars(\E k \in Positions :
               LoadSimulationResultsOk(k) \/ LoadSimulationResultsFail(k))

\* The same, with the browser running every pending animation frame and
\* timeout, and the plugin completing frame changes it is asked for.  (Strong
\* fairness: the browser does not wait for room among the calls in flight.)
SpecPlayerFair ==
  /\ SpecPlayer
  /\ SF_vars(Animate)
  /\ SF_vars(FrameTimeout)
  /\ SF_vars(\E k \in 1..MaxCalls : GoToFrameOk(k))

\* -------------------------------------------------------------- claims
JobsReqs(n) == Cardinality({i \in DOMAIN n : n[i].kind = "jobs"})

ResultsReqs(n) == Cardinality({i \in DOMAIN n : n[i].kind = "results"})

\* What the render reads of the state modelled here (jobs list, job header,
\* results tab, the form): two states with the same View are rendered alike.
View == <<jobs, selectedJob, results, showNewPipeline, pipelineConfig>>

\* The View of the dashboard as mounted, before anything has failed.
InitialView == <<<<>>, NoJob, NoResults, FALSE, InitialConfig>>

\* C1: after a successful job-list fetch, a selected job whose id is in the
\* returned list equals the returned entry.
C1_SelectedReflectsList ==
  (last.op = "loadJobs" /\ last.outcome = "ok" /\ selectedJob # NoJob)
    => \A i \in DOMAIN jobs :
         jobs[i].id = selectedJob.id => selectedJob = jobs[i]

\* C2: the timer is armed exactly when a job is pending or running or
\* isPolling is set, and neither a tick nor the handling of a job-list response
\* issues a job-list fetch while that predicate is false.
C2_PollingPolicy ==
  [][ /\ timerArmed' <=> PollPredicate(isPolling', jobs')
      /\ (/\ last'.op = "loadJobs" /\ last'.outcome = "ok"
          /\ JobsReqs(net') = JobsReqs(net))
           => PollPredicate(isPolling', jobs')
      /\ (/\ last' = UserEvent /\ selIdx' = selIdx
          /\ JobsReqs(net') = JobsReqs(net) + 1)
           => PollPredicate(isPolling, jobs) ]_vars

\* C3: loadJobs issues at most one results fetch for a job that has become
\* completed.
C3_OneResultsFetch == \A id \in DOMAIN resultsIssued : resultsIssued[id] <= 1

\* C4: when no results fetch is in flight, the result set held was fetched
\* for the selected job.
C4_ResultsForSelected ==
  (ResultsReqs(net) = 0 /\ results # NoResults)
    => results.job = selectedJob.id

\* C5: a job-list response is not applied once the response of a later-issued
\* job-list request has been applied.
C5_NoSupersededApplied == ~(last.op = "loadJobs" /\ last.superseded)

\* C6: a failed job-list fetch leaves the job list, the selected job and the
\* result set as they were.
C6_FailedFetchKeepsState ==
  [][ (last'.op = "loadJobs" /\ last'.outcome = "failed")
        => (jobs' = jobs /\ selectedJob' = selectedJob /\ results' = results)
    ]_vars

C6_Witness ==
  /\ last = Done("loadJobs", "failed")
  /\ jobs # <<>>
  /\ selectedJob # NoJob
  /\ results # NoResults

\* C7: no start-pipeline request in flight carries an empty name or an empty
\* target molecule.
C7_NoEmptySubmit ==
  \A i \in DOMAIN net :
    net[i].kind = "submit"
      => net[i].cfg.name # "" /\ net[i].cfg.target_molecule # ""

C7_Witness ==
  /\ \E i \in DOMAIN net : net[i].kind = "submit"
  /\ showNewPipeline
  /\ pipelineConfig.name = ""

\* C8: a successful submit puts the job the backend returned first in the
\* list, the prior elements after it in their order, selects it and sets
\* isPolling.
C8_SubmitSuccess ==
  [][ (last'.op = "startPipeline" /\ last'.outcome = "ok")
        => /\ Len(srvJobs') = Len(srvJobs) + 1
           /\ jobs' # <<>>
           /\ Head(jobs') = srvJobs'[Len(srvJobs')]
           /\ Tail(jobs') = jobs
           /\ selectedJob' = Head(jobs')
           /\ isPolling'
    ]_vars

C8_Witness ==
  /\ last = Done("startPipeline", "ok")
  /\ Len(jobs) >= 2
  /\ selectedJob = jobs[1]
  /\ jobs[1].id # jobs[2].id

\* C9: a failed submit leaves the form as it was (open if it was open), the
\* config, the job list and the selected job unchanged.
C9_SubmitFailure ==
  [][ (last'.op = "startPipeline" /\ last'.outcome = "failed")
        => /\ showNewPipeline' = showNewPipeline
           /\ pipelineConfig' = pipelineConfig
           /\ jobs' = jobs
           /\ selectedJob' = selectedJob
    ]_vars

C9_Witness ==
  /\ last = Done("startPipeline", "failed")
  /\ showNewPipeline
  /\ SubmitEnabled(pipelineConfig)
  /\ jobs # <<>>

\* C10: after a failed request the dashboard shows an error indication, so
\* what it renders differs from what it rendered when mounted.
C10_FailureIndicated == last.outcome = "failed" => View # InitialView

\* C11: the completion handler of a successful cancel request issues one
\* job-list fetch itself, armed timer or not; the handler of a failed cancel
\* request issues none.
C11_CancelRefresh ==
  [][ /\ (last'.op = "cancelJob" /\ last'.outcome = "ok")
           => (JobsReqs(net') = JobsReqs(net) + 1 /\ timerArmed' = timerArmed)
      /\ (last'.op = "cancelJob" /\ last'.outcome = "failed")
           => JobsReqs(net') = JobsReqs(net)
    ]_vars

C11_Witness ==
  /\ last = Done("cancelJob", "ok")
  /\ ~timerArmed
  /\ JobsReqs(net) >= 1

\* The job snapshots on display: the entries of the list and the selected job.
Shown(js, sel) ==
  {js[i] : i \in DOMAIN js} \cup (IF sel # NoJob THEN {sel} ELSE {})

\* The job snapshots the backend has reported in the job-list responses that
\* are on their way to the client.
Reported(n) ==
  UNION {{n[k].data[i] : i \in DOMAIN n[k].data} :
           k \in {q \in DOMAIN n : n[q].kind = "jobs" /\ n[q].st = "ok"}}

\* C12: every job snapshot on display after a step was on display before it,
\* or is one the backend reported (in a job-list response, or as the job a
\* successful submit created); so a status, cancelled included, is displayed
\* only once the backend has reported it.
C12_StatusFromServer ==
  [][ \A j \in Shown(jobs', selectedJob') :
        \/ j \in Shown(jobs, selectedJob)
        \/ j \in Reported(net)
        \/ (last'.op = "startPipeline" /\ last'.outcome = "ok"
              /\ j = srvJobs'[Len(srvJobs')])
    ]_vars

C12_Witness ==
  /\ last.op = "loadJobs" /\ last.outcome = "ok"
  /\ selectedJob.status = "cancelled"

\* C13: when the player knows the total frame count, the dashboard's cursor
\* is a frame of the trajectory, i.e. within [0, total - 1].
C13_CursorInRange ==
  viewer.total > 0 => currentFrame \in 0..(viewer.total - 1)

\* C14: a click on a PCA point whose frame f the loaded trajectory has sets the
\* cursor to f and reaches the player: the player shows f already or has asked
\* its plugin for f.
C14_ClickReachesViewer ==
  [][ (last'.op = "plotClick" /\ currentFrame' < viewer.total)
        => \/ viewer'.current = currentFrame'
           \/ \E i \in DOMAIN calls' : calls'[i].frame = currentFrame'
    ]_vars

\* C15: with a structure loaded that has the cursor's frame, no goToFrame call
\* in flight and no playback tick pending, the player's frame, the cursor and
\* the frame of the plot's highlighted point are equal.
C15_SyncAtRest ==
  (/\ viewer.mounted /\ currentFrame < viewer.total
   /\ calls = <<>> /\ ~viewer.raf /\ ~viewer.timeout)
    => /\ viewer.current = currentFrame
       /\ Highlighted(currentFrame) = {viewer.current}

\* C16: a step that changes which job is selected, or replaces the result set
\* held, leaves the cursor at 0.
C16_CursorReset ==
  [][ (selectedJob'.id # selectedJob.id \/ results' # results)
        => currentFrame' = 0
    ]_vars

\* C17: if the player stays in the playing state from some point on, playback
\* advances the frame infinitely often.
C17_PlaybackAdvances ==
  []<>(~viewer.isPlaying) \/ []<><<Animate>>_vars


\* C18: while playback runs, every frame advance leaves the cursor, the frame
\* the viewer shows and the point the plot highlights on the same frame.
C18_PlaybackSync ==
  [][ (last'.op = "advance" /\ last'.outcome = "ok")
        => /\ currentFrame' = viewer'.shown
           /\ Highlighted(currentFrame') = {viewer'.shown} ]_vars


\* C19: a timer exists only while the view that owns it is mounted and its
\* activating condition holds (poll predicate true; playback on; analysis
\* running with auto-refresh on), so no timer callback can run after the
\* view is torn down or after the condition has become false.
C19_NoLeakedTimers ==
  /\ timerArmed => (view = "jobs" /\ PollPredicate(isPolling, jobs))
  /\ (viewer.raf \/ viewer.timeout) => (viewer.mounted /\ viewer.isPlaying)
  /\ sim.timer => (view = "sim" /\ AutoRefreshEffect(sim))

\* The job dashboard was unmounted while its poll predicate held, and the
\* interval is gone.
C19_Witness ==
  /\ view = "none"
  /\ PollPredicate(isPolling, jobs)
  /\ ~timerArmed


\* C20: a poll whose request fails leaves the polling timer of its dashboard
\* armed, in the job dashboard (loadJobs) and in the simulation dashboard
\* (checkJobsStatus).
C20_FailedPollKeepsLoop ==
  [][ /\ (last'.op = "loadJobs" /\ last'.outcome = "failed" /\ timerArmed)
           => timerArmed'
      /\ (last'.op = "checkJobsStatus" /\ last'.outcome = "failed"
            /\ sim.timer) => sim'.timer ]_vars


\* C21: when a status poll of the simulation dashboard is applied, every
\* sub-task's recorded status is the one it had or the one the backend reports
\* for it, the overall status turns to error only if a sub-task of the analysis
\* has failed, and it turns to completed only if every sub-task of the
\* analysis is completed.
C21_AggregateStatus ==
  [][ last'.op = "checkJobsStatus" =>
        /\ \A i \in sim.jobIds :
             sim'.currentJobs[i] \in {sim.currentJobs[i], srvTasks[i]}
        /\ (sim'.analysisStatus = "error" /\ sim.analysisStatus # "error")
             => \E i \in sim.jobIds : srvTasks[i] = "error"
        /\ (sim'.analysisStatus = "completed"
              /\ sim.analysisStatus # "completed")
             => \A i \in sim.jobIds : srvTasks[i] = "completed" ]_vars


\* The start request of the analysis has succeeded and every one of its
\* sub-tasks is completed at the backend, while the dashboard still shows the
\* analysis as running.
AnalysisFinished ==
  /\ sim.analysisStatus = "running"
  /\ sim.jobIds # {}
  /\ \A k \in DOMAIN simNet : simNet[k].kind \notin {"full", "pca"}
  /\ \A i \in sim.jobIds : srvTasks[i] = "completed"

\* C22: whenever an analysis (the first or a re-run) has started well and all
\* its sub-tasks are completed, the dashboard eventually shows completed with
\* the results loaded, unless a request fails on the way.
C22_AnalysisCompletes ==
  [](AnalysisFinished =>
       <>(\/ sim.analysisStatus = "completed" /\ sim.simulationResults
          \/ sim.analysisStatus = "error"
          \/ sim.error))


\* Every job in the in-memory list is completed, failed or cancelled.
AllTerminal == \A i \in DOMAIN jobs : jobs[i].status \notin ActiveStatuses

\* A click of the user in the job dashboard.
UserStep == (\E i \in 1..(MaxJobs + 1) : SelectJob(i)) \/ CancelClick

\* C23: if from some point on every job in the list is terminal and the user
\* clicks nothing, then from some point on no request is in flight: job-list
\* and results fetches are no longer issued.
C23_PollingQuiesces ==
  (<>[]AllTerminal /\ <>[][~UserStep]_vars) => <>[](net = <<>>)


\* The ids of the jobs in a list.
Ids(js) == {js[i].id : i \in DOMAIN js}

\* C24: no step removes a job from the in-memory list: every id in the list
\* before a step is in the list after it.
C24_JobsNeverDeleted == [][Ids(jobs) \subseteq Ids(jobs')]_vars


\* C25: whenever the new-pipeline form is closed, the pipeline config has its
\* initial values.
C25_ConfigDiscarded == ~showNewPipeline => pipelineConfig = InitialConfig


\* C26: in the 7.1 player every frame asked of the plugin and the viewer's
\* current frame are in [0, total - 1], and the frame a playback advance asks
\* for is the next one, or frame 0 from the last frame.
C26_ViewerFrameRange ==
  [][ /\ viewer'.total > 0 => viewer'.current \in 0..(viewer'.total - 1)
      /\ \A i \in DOMAIN calls' : calls'[i].frame \in 0..(viewer'.total - 1)
      /\ (Len(calls') > Len(calls) /\ calls'[Len(calls')].playback)
           => calls'[Len(calls')].frame =
                (IF viewer.current = viewer.total - 1
                   THEN 0 ELSE viewer.current + 1) ]_vars

\* A playback advance from the last frame has brought the viewer to frame 0.
C26_Witness ==
  /\ last = Done("advance", "ok")
  /\ viewer.total = MaxFrames
  /\ viewer.current = 0


\* C27: handling a job-list response never changes the id of the selected
\* job.
C27_SelectionUserOwned ==
  [][last'.op = "loadJobs" => selectedJob'.id = selectedJob.id]_vars


\* C28: whenever no request is in flight, the selected job is none or has the
\* id of a job in the in-memory list.
C28_SelectedInList ==
  net = <<>> => (selectedJob = NoJob \/ selectedJob.id \in Ids(jobs))


\* C29: in the 7.1 player a plot click made while the viewer is playing asks
\* nothing of the viewer and leaves its frame alone; the step that ends
\* playback asks the viewer for the cursor's frame if the two differ; and a
\* frame change that is not a playback advance ends with cursor and viewer on
\* the same frame.
C29_ClickDuringPlayback ==
  [][ /\ (last'.op = "plotClick" /\ viewer.isPlaying)
           => (calls' = calls /\ viewer' = viewer)
      /\ (viewer.isPlaying /\ ~viewer'.isPlaying
            /\ currentFrame' # viewer'.current)
           => \E i \in DOMAIN calls' : calls'[i].frame = currentFrame'
      /\ (last'.op = "goToFrame" /\ last'.outcome = "ok")
           => viewer'.current = currentFrame' ]_vars

\* A plot click during playback has moved the cursor and not the viewer.
C29_Witness ==
  /\ last.op = "plotClick"
  /\ viewer.isPlaying
  /\ currentFrame # viewer.current
  /\ calls = <<>>


\* C30: in the simulation dashboard, when the last of the goToFrame calls in
\* flight completes, it is the call that was made last, and the cursor and the
\* viewer are on its frame.
C30_LastRequestWins ==
  [][ (view = "sim" /\ last'.op = "goToFrame" /\ last'.outcome = "ok"
         /\ calls' = <<>>)
        => (~last'.superseded /\ viewer'.current = currentFrame') ]_vars

====
